---------------------------- MODULE Spec2Model ----------------------------
(***************************************************************************)
(* A model of src/main.py: the staged, cached pipeline                     *)
(*   get_followers / get_following -> get_follow_all -> get_user_data      *)
(*   (serial loop) -> aggregate_to_markdown -> generate_avatars            *)
(*   (bounded-concurrency, retrying fan-out) -> aggregate_avatars.         *)
(*                                                                         *)
(* Spec      : one call of generate_avatars (lines 207-345) followed by    *)
(*             the start of aggregate_avatars (line 506), from any store   *)
(*             earlier runs can have left.                                 *)
(* FairSpec  : Spec with the fairness asyncio's event loop gives.          *)
(* SpecMember: generate_avatars for one member, every response and every   *)
(*             result of the write.                                        *)
(* SpecMerge : get_follow_all (lines 75-91) on every pair of lists.        *)
(* SpecMain  : main() (lines 461-507), run after run on one Record Store   *)
(*             that starts empty, with failing fetches and writes.         *)
(* SpecMergeRuns: get_follow_all called again with any include_self on     *)
(*             the store an earlier call left.                             *)
(* SpecReplies: the reply loop of get_user_data (lines 109-116) on every   *)
(*             reply limit and every short list of tweets.                 *)
(* SpecProject: aggregate_to_markdown (lines 136-204) on one stored file,  *)
(*             every pair of thresholds.                                   *)
(* SpecAggregate: aggregate_avatars (lines 348-370) on every avatar        *)
(*             directory the program can have left.                        *)
(* SpecTargets: main() for one target after another on one Record Store,  *)
(*             with a working file system.                                 *)
(***************************************************************************)
EXTENDS Integers, Sequences, FiniteSets, TLC

(***************************************************************************)
(* Bounds of the model.                                                    *)
(***************************************************************************)
\* number of members that can have a projected document in cache_dir
MaxMembers == 2
\* largest value of the max_concurrent parameter that is explored
MaxSlots == 2
\* largest like / retweet / view count the generation service reports
MaxCount == 1
\* largest number of top-post entries in a response
MaxPosts == 1

(***************************************************************************)
(* Program constants.                                                      *)
(***************************************************************************)
\* @backoff.on_exception(..., max_tries=5, ...)
MaxTries == 5

Ids == 1..MaxMembers

(***************************************************************************)
(* The generation service's response, as far as process_user looks at it.  *)
(* A numeric field of a top-post entry is missing, JSON null, a JSON       *)
(* number or a JSON string holding a number.                               *)
(***************************************************************************)
FieldVals ==
    {[k |-> "missing", n |-> 0], [k |-> "null", n |-> 0]}
        \cup {[k |-> "int", n |-> i] : i \in -1..MaxCount}
        \cup {[k |-> "str", n |-> MaxCount]}

Normal == [k |-> "int", n |-> MaxCount]

RECURSIVE SeqsUpTo(_, _)
SeqsUpTo(S, n) ==
    IF n = 0 THEN {<<>>}
    ELSE LET shorter == SeqsUpTo(S, n - 1)
         IN  shorter \cup {Append(s, x) : s \in {t \in shorter : Len(t) = n - 1}, x \in S}

NormalPost == [likes |-> Normal, retweets |-> Normal, views |-> Normal]

\* the top-post entries the service is given to answer with: at most one of
\* the three numeric fields is not an ordinary count, and one entry with a
\* negative and a null field
RawPosts ==
    {p \in [likes : FieldVals, retweets : FieldVals, views : FieldVals] :
        Cardinality({f \in {"likes", "retweets", "views"} : p[f] # Normal}) <= 1}
        \cup {[likes |-> [k |-> "int", n |-> -1], retweets |-> Normal,
                views |-> [k |-> "null", n |-> 0]]}

\* the lists of top posts: at most one entry is not ordinary
TopPostLists ==
    {s \in SeqsUpTo(RawPosts, MaxPosts) :
        Cardinality({i \in 1..Len(s) : s[i] # NormalPost}) <= 1}

\* parse  : response.choices[0].message.content is JSON text (json.loads, 301)
\* shape  : every field of Avatar other than the numeric top-post fields
\*          satisfies the schema (lines 28-35, 21-26)
\* has_top: 'engagement' in raw_avatar and 'top_posts' in raw_avatar['engagement']
Responses ==
    {[parse |-> FALSE, shape |-> FALSE, has_top |-> FALSE, top_posts |-> <<>>],
     [parse |-> TRUE, shape |-> FALSE, has_top |-> FALSE, top_posts |-> <<>>],
     [parse |-> TRUE, shape |-> TRUE, has_top |-> FALSE, top_posts |-> <<>>]}
        \cup {[parse |-> TRUE, shape |-> sh, has_top |-> TRUE, top_posts |-> s] :
                 sh \in BOOLEAN, s \in TopPostLists}

\* one response of each kind process_user tells apart: text that is no JSON,
\* a wrong structure, a valid answer without and with a top post, a top post
\* with views null, a top post with negative likes
CoreResponses ==
    {[parse |-> FALSE, shape |-> FALSE, has_top |-> FALSE, top_posts |-> <<>>],
     [parse |-> TRUE, shape |-> FALSE, has_top |-> FALSE, top_posts |-> <<>>],
     [parse |-> TRUE, shape |-> TRUE, has_top |-> FALSE, top_posts |-> <<>>],
     [parse |-> TRUE, shape |-> TRUE, has_top |-> TRUE, top_posts |-> <<NormalPost>>],
     [parse |-> TRUE, shape |-> TRUE, has_top |-> TRUE,
      top_posts |-> <<[likes |-> Normal, retweets |-> Normal,
                       views |-> [k |-> "null", n |-> 0]]>>],
     [parse |-> TRUE, shape |-> TRUE, has_top |-> TRUE,
      top_posts |-> <<[likes |-> [k |-> "int", n |-> -1], retweets |-> Normal,
                       views |-> Normal]>>]}

\* the responses of the runs of the whole pipeline: a valid one and one of a
\* wrong structure
MainResponses ==
    {[parse |-> TRUE, shape |-> FALSE, has_top |-> FALSE, top_posts |-> <<>>],
     [parse |-> TRUE, shape |-> TRUE, has_top |-> TRUE, top_posts |-> <<NormalPost>>]}

(***************************************************************************)
(* Lines 303-308: int(post.get(field, 0)).  dict.get returns the default   *)
(* only when the key is missing; a key present with value None gives None, *)
(* and int(None) raises TypeError.  int() of an int is the int, int() of a *)
(* numeric string parses it.                                               *)
(***************************************************************************)
CoerceField(v) ==
    IF v.k = "missing" THEN [ok |-> TRUE, n |-> 0]
    ELSE IF v.k = "null" THEN [ok |-> FALSE, n |-> 0]
    ELSE [ok |-> TRUE, n |-> v.n]

CoercePost(p) ==
    [likes |-> CoerceField(p.likes).n,
     retweets |-> CoerceField(p.retweets).n,
     views |-> CoerceField(p.views).n]

\* int() raised on some field of some entry
CoercionRaises(resp) ==
    /\ resp.has_top
    /\ \E i \in 1..Len(resp.top_posts) :
          \E f \in {"likes", "retweets", "views"} :
             ~CoerceField(resp.top_posts[i][f]).ok

\* raw_avatar after lines 304-308
Normalize(resp) ==
    [shape |-> resp.shape,
     has_top |-> resp.has_top,
     top_posts |-> [i \in 1..Len(resp.top_posts) |-> CoercePost(resp.top_posts[i])]]

(***************************************************************************)
(* Lines 21-35 and 311: the Avatar constructor.  TopPost requires likes,   *)
(* retweets and views to be int with ge=0.                                 *)
(***************************************************************************)
TopPostValid(p) == p.likes >= 0 /\ p.retweets >= 0 /\ p.views >= 0

SchemaValid(avatar) ==
    /\ avatar.shape
    /\ \A i \in 1..Len(avatar.top_posts) : TopPostValid(avatar.top_posts[i])

(***************************************************************************)
(* State.                                                                  *)
(***************************************************************************)
VARIABLES
    stage,            \* where main() is: "followers", "following", "merge",
                      \* "harvest", "generate", "aggregate" or "aborted"
    members,          \* ids whose <id>-data.md is in os.listdir(cache_dir)
    nonMd,            \* some task of a file not ending in .md has not run yet
    avatarStore,      \* output/avatars/<id>-avatar.json, per id
    max_concurrent,   \* parameter of generate_avatars
    semaphore,        \* asyncio.Semaphore._value
    pc,               \* per member task: where process_user (under backoff) is
    tries,            \* backoff's tries: invocations of process_user so far
    processed_users,  \* line 211
    failed_users,     \* line 212
    calls,            \* history: external generation calls made for the member
    onlyTransport,    \* history: every attempt so far ended in a failed call
    service,          \* the responses the generation service can answer with
    faults,           \* what the file system can do to a write of an artifact
    run,              \* number of the current run of main()
    lastRunEnded,     \* history: the run before this one reached the end of main()
    remote,           \* the platform: its followers and following of the target
    target_user,      \* line 473: the target identity
    include_self,     \* parameter of main
    followersFile,    \* output/<target>-followers.json
    followingFile,    \* output/<target>-following.json
    followAllFile,    \* output/<target>-follow-all.json
    followers,        \* line 477
    following,        \* line 481
    follow_all,       \* line 485
    graphCalls,       \* history: fetches of a relation made in this run
    userStore,        \* output/users/<id>-data.json, per id
    hpc,              \* where get_followers / get_following / get_user_data is
    idx,              \* line 493: members the harvest loop has finished
    user_datas,       \* line 489: len(user_datas)
    skipped_users,    \* line 492
    outcome,          \* history: how get_user_data ended for the member in this run
    fetchCalls,       \* history: post fetches made for the member in this run
    abortCause,       \* history: the exception that ended main()
    replies_limit,    \* parameter of get_user_data
    tweets,           \* line 106: tweets_dicts, as fetched
    tidx,             \* line 108: tweets the loop has finished
    attached,         \* lines 112-116: t['replies'] of the finished tweets
    replyFetches,     \* history: the calls of api.tweet_replies
    dataJson,         \* an <id>-data.json of cache_dir: its tweets and replies
    dataMd,           \* the <id>-data.md next to it
    min_likes_posts,  \* parameter of aggregate_to_markdown
    min_likes_replies, \* parameter of aggregate_to_markdown
    avatars,          \* line 351: the avatars loaded, by member and content
    processed_avatars, \* line 352
    failed_avatars,   \* line 353
    avatarsRead,      \* history: members whose avatar file the loop has had
    avatarsFile,      \* output/<target>-avatars.json
    targetFiles       \* output/<t>-followers.json, <t>-following.json,
                      \* <t>-follow-all.json and <t>-avatars.json of the
                      \* targets t that main() is not running for

graphVars == <<run, lastRunEnded, remote, target_user, include_self, followersFile,
               followingFile, followAllFile, followers, following, follow_all,
               graphCalls>>

harvestVars == <<userStore, hpc, idx, user_datas, skipped_users, outcome,
                 fetchCalls, abortCause>>

replyVars == <<replies_limit, tweets, tidx, attached, replyFetches>>

\* the state of the stages that are modelled on their own
projVars == <<dataJson, dataMd, min_likes_posts, min_likes_replies>>

aggVars == <<avatars, processed_avatars, failed_avatars, avatarsRead, avatarsFile>>

stageVars == <<replyVars, projVars, aggVars, targetFiles>>

\* what generate_avatars reads and never changes
envVars == <<members, max_concurrent, service, faults, graphVars, harvestVars,
             stageVars>>

\* the state of generate_avatars
genVars == <<stage, nonMd, avatarStore, semaphore, pc, tries, processed_users,
             failed_users, calls, onlyTransport>>

\* the state of generate_avatars that the earlier stages leave alone
genLocal == <<nonMd, avatarStore, semaphore, pc, tries, processed_users,
              failed_users, calls, onlyTransport>>

vars == <<envVars, genVars>>

Terminal == {"Done", "Succeeded", "FailedValidation", "Raised"}
FailedPermanently == {"FailedValidation", "Raised"}

\* A file of the Record Store: st is "none" (no file), "corrupt" (a file
\* that json.load rejects: a write that stopped part-way) or "ok" (a file
\* holding the artifact in data).
NoData == [shape |-> FALSE, has_top |-> FALSE, top_posts |-> <<>>]
NoFile == [st |-> "none", data |-> NoData]
Corrupt == [st |-> "corrupt", data |-> NoData]
Saved(a) == [st |-> "ok", data |-> a]

\* an artifact an earlier run persisted
SampleAvatar ==
    Saved([shape |-> TRUE, has_top |-> TRUE,
           top_posts |-> <<[likes |-> MaxCount, retweets |-> MaxCount,
                            views |-> MaxCount]>>])

WriteResults == {"ok", "open_fail", "dump_fail"}

InFlight == {m \in members : pc[m] = "Submitted"}

(***************************************************************************)
(* Identities, as far as the pipeline looks at them: the id, a tag v that  *)
(* tells the copies of one identity apart (the source it was listed by),   *)
(* and the form of its dates: "obj" for a record fresh from the            *)
(* collaborator (datetime objects), "json" for one read back by json.load  *)
(* (ISO strings, lines 56, 71, 90).                                        *)
(***************************************************************************)
User(i, v) == [id |-> i, v |-> v, form |-> "obj"]

GraphUsers == {User(i, v) : i \in Ids, v \in {"f", "g"}}

\* json.dump(..., default=isoformat) followed by json.load
AsJson(u) == [u EXCEPT !.form = "json"]
Dump(users) == [k \in 1..Len(users) |-> AsJson(users[k])]

NoList == [st |-> "none", data |-> <<>>]
CorruptList == [st |-> "corrupt", data |-> <<>>]
SavedList(users) == [st |-> "ok", data |-> Dump(users)]

\* a MemberArtifact file; its content is told apart by the run that fetched it
NoMember == [st |-> "none", fetched_in |-> 0]
CorruptMember == [st |-> "corrupt", fetched_in |-> 0]
SavedMember(r) == [st |-> "ok", fetched_in |-> r]

\* os.path.exists(cache_file), lines 46, 61, 76, 98, 231
ExistsNever(file) == FALSE

Exists(file) == file.st # "none"

\* the state of the stages that are not running
IdleGraph ==
    /\ run = 1
    /\ lastRunEnded = FALSE
    /\ remote = [followers |-> <<>>, following |-> <<>>]
    /\ target_user = User(1, "self")
    /\ include_self = TRUE
    /\ followersFile = NoList /\ followingFile = NoList /\ followAllFile = NoList
    /\ followers = <<>> /\ following = <<>> /\ follow_all = <<>>
    /\ graphCalls = [followers |-> 0, following |-> 0]

IdleHarvest ==
    /\ userStore = [i \in Ids |-> NoMember]
    /\ hpc = "idle"
    /\ idx = 0
    /\ user_datas = 0
    /\ skipped_users = 0
    /\ outcome = [i \in Ids |-> "none"]
    /\ fetchCalls = [i \in Ids |-> 0]
    /\ abortCause = "none"

\* get_user_data is not inside its loop over the tweets
IdleReplies ==
    /\ replies_limit = 0
    /\ tweets = <<>>
    /\ tidx = 0
    /\ attached = <<>>
    /\ replyFetches = <<>>

\* aggregate_to_markdown has not been called; no file is looked at
IdleProjection ==
    /\ dataJson = [st |-> "none", tweets |-> <<>>]
    /\ dataMd = [st |-> "none", posts |-> <<>>]
    /\ min_likes_posts = 0
    /\ min_likes_replies = 0

\* lines 349-353: aggregate_avatars has not read a file
IdleAggregate ==
    /\ avatars = <<>>
    /\ processed_avatars = 0
    /\ failed_avatars = 0
    /\ avatarsRead = {}
    /\ avatarsFile = NoList

\* no run for another target has left files in output/
IdleTargets ==
    targetFiles = [i \in Ids |-> [followers |-> NoList, following |-> NoList,
                                  follow_all |-> NoList, avatars |-> NoList]]

IdleStages == IdleReplies /\ IdleProjection /\ IdleAggregate /\ IdleTargets

(***************************************************************************)
(* generate_avatars, lines 207-213: the state after the set-up.            *)
(***************************************************************************)
GenerateStarts ==
    /\ stage = "generate"
    /\ semaphore = max_concurrent
    /\ pc = [i \in Ids |-> IF i \in members THEN "Pending" ELSE "Absent"]
    /\ tries = [i \in Ids |-> 0]
    /\ processed_users = 0
    /\ failed_users = 0
    /\ calls = [i \in Ids |-> 0]
    /\ onlyTransport = [i \in Ids |-> TRUE]

\* the directories as earlier runs can have left them, a working file system
InitGenerate ==
    /\ IdleStages
    /\ \E n \in 1..MaxMembers : members = 1..n
    /\ nonMd \in BOOLEAN
    /\ avatarStore \in [Ids -> {NoFile, Corrupt, SampleAvatar}]
    /\ \A i \in Ids \ members : avatarStore[i] = NoFile
    /\ max_concurrent \in 1..MaxSlots
    /\ service = CoreResponses
    /\ faults = {"ok"}
    /\ GenerateStarts
    /\ IdleGraph /\ IdleHarvest

\* one member, every response and every fault of the file system
InitMember ==
    /\ IdleStages
    /\ members = {1}
    /\ nonMd = FALSE
    /\ avatarStore \in [Ids -> {NoFile, Corrupt, SampleAvatar}]
    /\ \A i \in Ids \ members : avatarStore[i] = NoFile
    /\ max_concurrent = 1
    /\ service = Responses
    /\ faults = WriteResults
    /\ GenerateStarts
    /\ IdleGraph /\ IdleHarvest

(***************************************************************************)
(* asyncio.Semaphore (line 210, 238): acquire proceeds only with a free    *)
(* slot.                                                                   *)
(***************************************************************************)
SlotAlwaysFree == TRUE

SlotFree == semaphore > 0

(***************************************************************************)
(* backoff.on_exception(expo, Exception, max_tries=5, max_time=300), lines *)
(* 218-223: after an exception of the wrapped call, give up when this was  *)
(* try number max_tries or the elapsed time passed max_time; else sleep    *)
(* and call again.                                                         *)
(***************************************************************************)
GiveUpNever(t, timeExceeded) == FALSE

GiveUp(t, timeExceeded) == t >= MaxTries \/ timeExceeded

AfterException(t, timeExceeded) ==
    IF GiveUp(t, timeExceeded) THEN "Raised" ELSE "Backoff"

\* lines 238-245: slot taken, processed_users += 1, document read, call sent
Submit(m) ==
    /\ semaphore' = semaphore - 1
    /\ processed_users' = processed_users + 1
    /\ calls' = [calls EXCEPT ![m] = @ + 1]
    /\ pc' = [pc EXCEPT ![m] = "Submitted"]

(***************************************************************************)
(* Lines 224-245: process_user is called, the first time or again by       *)
(* backoff after its sleep.                                                *)
(***************************************************************************)
Invoke(m) ==
    /\ stage = "generate"
    /\ m \in members
    /\ pc[m] \in {"Pending", "Backoff"}
    /\ tries' = [tries EXCEPT ![m] = @ + 1]
    /\ IF Exists(avatarStore[m]) /\ avatarStore[m].st = "corrupt"
       THEN \* line 234: json.load raises, outside the try
            /\ \E timeExceeded \in BOOLEAN :
                  pc' = [pc EXCEPT ![m] = AfterException(tries[m] + 1, timeExceeded)]
            /\ onlyTransport' = [onlyTransport EXCEPT ![m] = FALSE]
            /\ UNCHANGED <<semaphore, processed_users, calls>>
       ELSE IF Exists(avatarStore[m])
       THEN \* lines 231-236: cache hit
            /\ pc' = [pc EXCEPT ![m] = "Done"]
            /\ processed_users' = processed_users + 1
            /\ onlyTransport' = [onlyTransport EXCEPT ![m] = FALSE]
            /\ UNCHANGED <<semaphore, calls>>
       ELSE IF SlotFree
       THEN /\ Submit(m)
            /\ UNCHANGED onlyTransport
       ELSE /\ pc' = [pc EXCEPT ![m] = "Waiting"]
            /\ UNCHANGED <<semaphore, processed_users, calls, onlyTransport>>
    /\ UNCHANGED <<stage, nonMd, avatarStore, failed_users, envVars>>

\* line 238: a task suspended in acquire gets a slot
Acquire(m) ==
    /\ stage = "generate"
    /\ m \in members
    /\ pc[m] = "Waiting"
    /\ SlotFree
    /\ Submit(m)
    /\ UNCHANGED <<stage, nonMd, avatarStore, tries, failed_users,
                   onlyTransport, envVars>>

\* lines 226-227: the task of a file that is no .md returns None.  These
\* tasks change nothing and are all alike: the step stands for the last one.
SkipNonMd ==
    /\ stage = "generate"
    /\ nonMd
    /\ nonMd' = FALSE
    /\ UNCHANGED <<stage, avatarStore, semaphore, pc, tries, processed_users,
                   failed_users, calls, onlyTransport, envVars>>

KeptOnRaise(sem) == sem

\* line 238: `async with _semaphore` releases the slot when the exception
\* of line 327 leaves the block
AfterRaise(sem) == sem + 1

(***************************************************************************)
(* Lines 245, 323-327: client.chat.completions.create raises.              *)
(***************************************************************************)
CallFails(m) ==
    /\ stage = "generate"
    /\ m \in members
    /\ pc[m] = "Submitted"
    /\ failed_users' = failed_users + 1
    /\ semaphore' = AfterRaise(semaphore)
    /\ \E timeExceeded \in BOOLEAN :
          pc' = [pc EXCEPT ![m] = AfterException(tries[m], timeExceeded)]
    /\ UNCHANGED <<stage, nonMd, avatarStore, tries, processed_users, calls,
                   onlyTransport, envVars>>

\* whether line 313 is reached (the file is opened for writing)
ReachesWriteUnvalidated(resp) ==
    /\ resp.parse
    /\ ~CoercionRaises(resp)

ReachesWrite(resp) ==
    /\ resp.parse                                    \* 301
    /\ ~CoercionRaises(resp)                         \* 304-308
    /\ SchemaValid(Normalize(resp))                  \* 311

\* what lines 300-327 do with a response: the exit taken
OutcomeRetryInvalid(resp, wres) ==
    IF ReachesWrite(resp) /\ wres = "ok" THEN "ok" ELSE "raise"

Outcome(resp, wres) ==
    IF ~resp.parse THEN "raise"                               \* 301, 323
    ELSE IF CoercionRaises(resp) THEN "raise"                 \* 306-308, 323
    ELSE IF ~ReachesWrite(resp) THEN "invalid"                \* 311, 318
    ELSE IF wres # "ok" THEN "raise"                          \* 313-315, 323
    ELSE "ok"                                                 \* 317

(***************************************************************************)
(* Lines 300-327: the call returns.  Everything up to the return, or up to *)
(* backoff's sleep, runs without suspending.  wres is what the file system *)
(* does at lines 313-315: "ok", "open_fail" (open raises, no file),        *)
(* "dump_fail" (the write raises after the file was created).              *)
(***************************************************************************)
CallReturns(m, resp, wres) ==
    /\ stage = "generate"
    /\ m \in members
    /\ pc[m] = "Submitted"
    /\ semaphore' = semaphore + 1
    /\ onlyTransport' = [onlyTransport EXCEPT ![m] = FALSE]
    /\ IF ReachesWrite(resp)
       THEN avatarStore' =
               [avatarStore EXCEPT ![m] =
                   IF wres = "ok" THEN Saved(Normalize(resp))
                   ELSE IF wres = "dump_fail" THEN Corrupt
                   ELSE @]
       ELSE /\ wres = "ok"
            /\ UNCHANGED avatarStore
    /\ LET out == Outcome(resp, wres) IN
          IF out = "ok"
          THEN /\ pc' = [pc EXCEPT ![m] = "Succeeded"]
               /\ UNCHANGED failed_users
          ELSE IF out = "invalid"
          THEN /\ pc' = [pc EXCEPT ![m] = "FailedValidation"]
               /\ failed_users' = failed_users + 1
          ELSE /\ failed_users' = failed_users + 1
               /\ \E timeExceeded \in BOOLEAN :
                     pc' = [pc EXCEPT ![m] = AfterException(tries[m], timeExceeded)]
    /\ UNCHANGED <<stage, nonMd, tries, processed_users, calls, envVars>>

(***************************************************************************)
(* Lines 334-345 and 506: asyncio.gather with return_exceptions=True       *)
(* returns when every task has finished; each exception among the results  *)
(* is counted; generate_avatars returns and main starts aggregate_avatars.  *)
(* Without return_exceptions the first exception would propagate at once.  *)
(***************************************************************************)
ReturnExceptions == TRUE

AllTasksDone == ~nonMd /\ \A m \in members : pc[m] \in Terminal

GatherReadyOnFirst == \E m \in members : pc[m] \in Terminal

GatherReady == AllTasksDone

Gather ==
    /\ stage = "generate"
    /\ IF ReturnExceptions
       THEN /\ GatherReady
            /\ failed_users' =
                  failed_users + Cardinality({m \in members : pc[m] = "Raised"})
            /\ stage' = "aggregate"
       ELSE /\ \/ \E m \in members : pc[m] = "Raised"
               \/ AllTasksDone
            /\ stage' = IF \E m \in members : pc[m] = "Raised"
                        THEN "aborted" ELSE "aggregate"
            /\ UNCHANGED failed_users
    /\ UNCHANGED <<nonMd, avatarStore, semaphore, pc, tries, processed_users,
                   calls, onlyTransport, envVars>>

NextGenerate ==
    \/ \E m \in Ids : Invoke(m)
    \/ \E m \in Ids : Acquire(m)
    \/ SkipNonMd
    \/ \E m \in Ids : CallFails(m)
    \/ \E m \in Ids, resp \in service, wres \in faults : CallReturns(m, resp, wres)
    \/ Gather

NextMember ==
    \/ Invoke(1)
    \/ CallFails(1)
    \/ \E resp \in service, wres \in faults : CallReturns(1, resp, wres)
    \/ Gather

Spec == InitGenerate /\ [][NextGenerate]_vars

SpecMember == InitMember /\ [][NextMember]_vars

(***************************************************************************)
(* main(), lines 461-507, run after run over one Record Store.             *)
(***************************************************************************)
\* the last run of main() that is explored
MaxRuns == 2
\* longest list of followers or of following given to get_follow_all
MaxLen == 2

\* how a collaborator fetch can end
FetchResults == {"ok", "fail"}

\* the exception leaves main(): the run is over
Abort(cause) ==
    /\ stage' = "aborted"
    /\ abortCause' = cause
    /\ hpc' = "idle"

(***************************************************************************)
(* get_followers (45-57) and get_following (60-72), called at 477 and 481. *)
(* rel is "followers" or "following"; file and value are the cache file    *)
(* and the variable of main that the call fills.                           *)
(***************************************************************************)
CollectCheck(rel, file, nextStage) ==
    /\ stage = rel
    /\ hpc = "idle"
    /\ IF Exists(file)
       THEN IF file.st = "corrupt"
            THEN \* json.load raises
                 /\ Abort("store_read")
                 /\ UNCHANGED <<followers, following, graphCalls>>
            ELSE /\ stage' = nextStage
                 /\ followers' = IF rel = "followers" THEN file.data ELSE followers
                 /\ following' = IF rel = "following" THEN file.data ELSE following
                 /\ UNCHANGED <<hpc, abortCause, graphCalls>>
       ELSE \* lines 52, 67: the fetch is sent
            /\ hpc' = "fetching"
            /\ graphCalls' = [graphCalls EXCEPT ![rel] = @ + 1]
            /\ UNCHANGED <<stage, abortCause, followers, following>>
    /\ UNCHANGED <<run, lastRunEnded, remote, target_user, include_self, followersFile,
                   followingFile, followAllFile, follow_all, userStore, idx,
                   user_datas, skipped_users, outcome, fetchCalls, members,
                   max_concurrent, service, faults, genLocal, stageVars>>

PartialCached(file) == SavedList(<<>>)

\* lines 52, 67: the exception of the fetch leaves the function before the
\* open of lines 54, 69
FileAfterFailedFetch(file) == file

\* lines 52-57, 67-72: the fetch ends; nothing here catches an exception
CollectFetchEnds(rel, nextStage, res, wres) ==
    /\ stage = rel
    /\ hpc = "fetching"
    /\ IF res = "fail"
       THEN /\ wres = "ok"
            /\ Abort("collect")
            /\ followersFile' = IF rel = "followers"
                                THEN FileAfterFailedFetch(followersFile)
                                ELSE followersFile
            /\ followingFile' = IF rel = "following"
                                THEN FileAfterFailedFetch(followingFile)
                                ELSE followingFile
            /\ UNCHANGED <<followers, following>>
       ELSE LET written == IF wres = "ok" THEN SavedList(remote[rel])
                           ELSE IF wres = "dump_fail" THEN CorruptList
                           ELSE NoList
            IN  /\ followersFile' = IF rel = "followers" THEN written ELSE followersFile
                /\ followingFile' = IF rel = "following" THEN written ELSE followingFile
                /\ IF wres = "ok"
                   THEN /\ stage' = nextStage
                        /\ hpc' = "idle"
                        /\ followers' = IF rel = "followers" THEN remote[rel] ELSE followers
                        /\ following' = IF rel = "following" THEN remote[rel] ELSE following
                        /\ UNCHANGED abortCause
                   ELSE /\ Abort("store_write")
                        /\ UNCHANGED <<followers, following>>
    /\ UNCHANGED <<run, lastRunEnded, remote, target_user, include_self, followAllFile,
                   follow_all, graphCalls, userStore, idx, user_datas,
                   skipped_users, outcome, fetchCalls, members, max_concurrent,
                   service, faults, genLocal, stageVars>>

GetFollowersCheck == CollectCheck("followers", followersFile, "following")
GetFollowersFetchEnds(res, wres) == CollectFetchEnds("followers", "following", res, wres)
GetFollowingCheck == CollectCheck("following", followingFile, "merge")
GetFollowingFetchEnds(res, wres) == CollectFetchEnds("following", "merge", res, wres)

(***************************************************************************)
(* get_follow_all, lines 75-91.  The dict comprehension of line 86 keeps   *)
(* one entry per id: a later user with a known id replaces the value and   *)
(* keeps the place of the first one; list(values()) gives the values in    *)
(* the order of the places.                                                *)
(***************************************************************************)
PutKeepFirst(acc, u) ==
    IF \E j \in 1..Len(acc) : acc[j].id = u.id THEN acc ELSE Append(acc, u)

Put(acc, u) ==
    IF \E j \in 1..Len(acc) : acc[j].id = u.id
    THEN [j \in 1..Len(acc) |-> IF acc[j].id = u.id THEN u ELSE acc[j]]
    ELSE Append(acc, u)

RECURSIVE MergeInto(_, _)
MergeInto(acc, users) ==
    IF users = <<>> THEN acc
    ELSE MergeInto(Put(acc, Head(users)), Tail(users))

\* lines 82-85
UsersToMerge(fs, gs, target, flag) ==
    IF flag THEN Append(fs \o gs, target) ELSE fs \o gs

\* lines 82-87
MergeGraph(fs, gs, target, flag) == MergeInto(<<>>, UsersToMerge(fs, gs, target, flag))

GetFollowAll(wres) ==
    /\ stage = "merge"
    /\ IF Exists(followAllFile)
       THEN /\ wres = "ok"
            /\ IF followAllFile.st = "corrupt"
               THEN /\ Abort("store_read")
                    /\ UNCHANGED follow_all
               ELSE /\ follow_all' = followAllFile.data
                    /\ stage' = "harvest"
                    /\ UNCHANGED <<hpc, abortCause>>
            /\ UNCHANGED followAllFile
       ELSE LET merged == MergeGraph(followers, following, target_user, include_self)
            IN  /\ followAllFile' = IF wres = "ok" THEN SavedList(merged)
                                    ELSE IF wres = "dump_fail" THEN CorruptList
                                    ELSE NoList
                /\ IF wres = "ok"
                   THEN /\ follow_all' = merged
                        /\ stage' = "harvest"
                        /\ UNCHANGED <<hpc, abortCause>>
                   ELSE /\ Abort("store_write")
                        /\ UNCHANGED follow_all
    /\ UNCHANGED <<run, lastRunEnded, remote, target_user, include_self, followersFile,
                   followingFile, followers, following, graphCalls, userStore,
                   idx, user_datas, skipped_users, outcome, fetchCalls, members,
                   max_concurrent, service, faults, genLocal, stageVars>>

(***************************************************************************)
(* The harvest loop of main (488-502) around get_user_data (94-133).       *)
(***************************************************************************)
\* lines 495-501: the loop's bookkeeping for the member just finished
Counted(id, how, got) ==
    /\ outcome' = [outcome EXCEPT ![id] = how]
    /\ user_datas' = IF got THEN user_datas + 1 ELSE user_datas
    /\ skipped_users' = IF got THEN skipped_users ELSE skipped_users + 1
    /\ idx' = idx + 1
    /\ hpc' = "idle"

\* lines 94-103: get_user_data is called for the next member
HarvestCheck ==
    /\ stage = "harvest"
    /\ hpc = "idle"
    /\ idx < Len(follow_all)
    /\ LET id == follow_all[idx + 1].id IN
          IF Exists(userStore[id])
          THEN IF userStore[id].st = "corrupt"
               THEN \* line 101: json.load raises, outside the try
                    /\ Abort("store_read")
                    /\ UNCHANGED <<outcome, user_datas, skipped_users, idx, fetchCalls>>
               ELSE /\ Counted(id, "cached", TRUE)
                    /\ UNCHANGED <<stage, abortCause, fetchCalls>>
          ELSE \* line 105: the fetch of the posts is sent
               /\ hpc' = "fetching"
               /\ fetchCalls' = [fetchCalls EXCEPT ![id] = @ + 1]
               /\ UNCHANGED <<stage, abortCause, outcome, user_datas, skipped_users, idx>>
    /\ UNCHANGED <<graphVars, userStore, members, max_concurrent, service, faults,
                   genLocal, stageVars>>

\* line 131: except Exception around the fetches and the write
HarvestPropagates == FALSE

HarvestCatches == TRUE

ReturnsAtOnce == "idle"

\* lines 128-129: after the write, get_user_data is in asyncio.sleep(2)
AfterStored == "sleeping"

\* lines 105-133: the fetch of posts and replies ends, by an exception of
\* the collaborator or with the data, which is then written
HarvestFetchEnds(res, wres) ==
    /\ stage = "harvest"
    /\ hpc = "fetching"
    /\ LET id == follow_all[idx + 1].id
           failed == res = "fail" \/ wres # "ok"
           how == IF res = "fail" THEN "fetch_fail" ELSE "write_fail"
       IN  /\ res = "fail" => wres = "ok"
           /\ userStore' =
                 [userStore EXCEPT ![id] =
                     IF res = "fail" \/ wres = "open_fail" THEN @
                     ELSE IF wres = "dump_fail" THEN CorruptMember
                     ELSE SavedMember(run)]
           /\ IF ~failed
              THEN \* line 129: asyncio.sleep(2)
                   /\ hpc' = AfterStored
                   /\ UNCHANGED <<stage, abortCause, outcome, user_datas,
                                  skipped_users, idx>>
              ELSE IF HarvestCatches
              THEN \* lines 131-133, 499-500
                   /\ Counted(id, how, FALSE)
                   /\ UNCHANGED <<stage, abortCause>>
              ELSE /\ Abort(IF res = "fail" THEN "harvest" ELSE "store_write")
                   /\ UNCHANGED <<outcome, user_datas, skipped_users, idx>>
    /\ UNCHANGED <<graphVars, fetchCalls, members, max_concurrent, service,
                   faults, genLocal, stageVars>>

\* lines 129-130, 495-498: the courtesy delay ends and the data is returned
HarvestSleepEnds ==
    /\ stage = "harvest"
    /\ hpc = "sleeping"
    /\ Counted(follow_all[idx + 1].id, "fetched", TRUE)
    /\ UNCHANGED <<stage, abortCause, graphVars, userStore, fetchCalls, members,
                   max_concurrent, service, faults, genLocal, stageVars>>

(***************************************************************************)
(* Lines 502-505: the loop is over; aggregate_to_markdown (136-204) writes *)
(* <id>-data.md for every <id>-data.json it can read, and generate_avatars *)
(* starts (207-213) with the listing of cache_dir.                         *)
(***************************************************************************)
ProjectAndStartGenerate ==
    /\ stage = "harvest"
    /\ hpc = "idle"
    /\ idx = Len(follow_all)
    /\ members' = members \cup {i \in Ids : userStore[i].st = "ok"}
    /\ stage' = "generate"
    /\ nonMd' = (\E i \in Ids : Exists(userStore[i]))
    /\ semaphore' = max_concurrent
    /\ pc' = [i \in Ids |-> IF i \in members' THEN "Pending" ELSE "Absent"]
    /\ tries' = [i \in Ids |-> 0]
    /\ processed_users' = 0
    /\ failed_users' = 0
    /\ calls' = [i \in Ids |-> 0]
    /\ onlyTransport' = [i \in Ids |-> TRUE]
    /\ UNCHANGED <<avatarStore, max_concurrent, service, faults, graphVars,
                   harvestVars, stageVars>>

(***************************************************************************)
(* Lines 506-507 and the next call of main(): aggregate_avatars and        *)
(* aggregate_avatars_lite run, the process ends, and main() is run again   *)
(* on the same Record Store (lines 461-474).  A run that was aborted is    *)
(* followed by a new run in the same way.                                  *)
(***************************************************************************)
NextRun(flag) ==
    /\ stage \in {"aggregate", "aborted"}
    /\ run < MaxRuns
    /\ run' = run + 1
    /\ lastRunEnded' = (stage = "aggregate")
    /\ include_self' = flag
    /\ stage' = "followers"
    /\ hpc' = "idle"
    /\ followers' = <<>> /\ following' = <<>> /\ follow_all' = <<>>
    /\ graphCalls' = [followers |-> 0, following |-> 0]
    /\ idx' = 0 /\ user_datas' = 0 /\ skipped_users' = 0
    /\ outcome' = [i \in Ids |-> "none"]
    /\ fetchCalls' = [i \in Ids |-> 0]
    /\ abortCause' = "none"
    /\ calls' = [i \in Ids |-> 0]
    /\ UNCHANGED <<remote, target_user, followersFile, followingFile,
                   followAllFile, userStore, members, max_concurrent, service,
                   faults, nonMd, avatarStore, semaphore, pc, tries,
                   processed_users, failed_users, onlyTransport, stageVars>>

\* the first run of main() on an empty Record Store
InitMain ==
    /\ IdleStages
    /\ stage = "followers"
    /\ run = 1
    /\ lastRunEnded = FALSE
    /\ remote = [followers |-> <<User(1, "f")>>,
                 following |-> [i \in Ids |-> User(i, "g")]]
    /\ target_user = User(1, "self")
    /\ include_self \in BOOLEAN
    /\ followersFile = NoList /\ followingFile = NoList /\ followAllFile = NoList
    /\ followers = <<>> /\ following = <<>> /\ follow_all = <<>>
    /\ graphCalls = [followers |-> 0, following |-> 0]
    /\ IdleHarvest
    /\ members = {}
    /\ nonMd = FALSE
    /\ avatarStore = [i \in Ids |-> NoFile]
    /\ max_concurrent \in 1..MaxSlots
    /\ service = MainResponses
    /\ faults = WriteResults
    /\ semaphore = max_concurrent
    /\ pc = [i \in Ids |-> "Absent"]
    /\ tries = [i \in Ids |-> 0]
    /\ processed_users = 0
    /\ failed_users = 0
    /\ calls = [i \in Ids |-> 0]
    /\ onlyTransport = [i \in Ids |-> TRUE]

NextMain ==
    \/ GetFollowersCheck
    \/ \E res \in FetchResults, wres \in faults : GetFollowersFetchEnds(res, wres)
    \/ GetFollowingCheck
    \/ \E res \in FetchResults, wres \in faults : GetFollowingFetchEnds(res, wres)
    \/ \E wres \in faults : GetFollowAll(wres)
    \/ HarvestCheck
    \/ \E res \in FetchResults, wres \in faults : HarvestFetchEnds(res, wres)
    \/ HarvestSleepEnds
    \/ ProjectAndStartGenerate
    \/ NextGenerate
    \/ \E flag \in BOOLEAN : NextRun(flag)

SpecMain == InitMain /\ [][NextMain]_vars

\* get_follow_all alone, for every pair of lists and every target
InitMerge ==
    /\ IdleStages
    /\ stage = "merge"
    /\ run = 1
    /\ lastRunEnded = FALSE
    /\ remote = [followers |-> <<>>, following |-> <<>>]
    /\ target_user \in {User(i, "self") : i \in Ids}
    /\ include_self \in BOOLEAN
    /\ followersFile = NoList /\ followingFile = NoList /\ followAllFile = NoList
    /\ followers \in SeqsUpTo(GraphUsers, MaxLen)
    /\ following \in SeqsUpTo(GraphUsers, MaxLen)
    /\ follow_all = <<>>
    /\ graphCalls = [followers |-> 0, following |-> 0]
    /\ IdleHarvest
    /\ members = {}
    /\ nonMd = FALSE
    /\ avatarStore = [i \in Ids |-> NoFile]
    /\ max_concurrent = 1
    /\ service = {}
    /\ faults = {"ok"}
    /\ semaphore = max_concurrent
    /\ pc = [i \in Ids |-> "Absent"]
    /\ tries = [i \in Ids |-> 0]
    /\ processed_users = 0
    /\ failed_users = 0
    /\ calls = [i \in Ids |-> 0]
    /\ onlyTransport = [i \in Ids |-> TRUE]

NextMerge == GetFollowAll("ok")

SpecMerge == InitMerge /\ [][NextMerge]_vars

\* lines 476-485 of a later run: main has the same followers and following
\* again and calls get_follow_all with the flag of that run
CallAgain(flag) ==
    /\ stage = "harvest"
    /\ run < MaxRuns
    /\ run' = run + 1
    /\ include_self' = flag
    /\ follow_all' = <<>>
    /\ stage' = "merge"
    /\ UNCHANGED <<lastRunEnded, remote, target_user, followersFile,
                   followingFile, followAllFile, followers, following,
                   graphCalls, harvestVars, members, max_concurrent, service,
                   faults, genLocal, stageVars>>

NextMergeRuns ==
    \/ GetFollowAll("ok")
    \/ \E flag \in BOOLEAN : CallAgain(flag)

\* get_follow_all in run after run for one target
SpecMergeRuns == InitMerge /\ [][NextMergeRuns]_vars

(***************************************************************************)
(* The loop over the fetched tweets in get_user_data, lines 108-120.       *)
(* A tweet is its replyCount field and the replies the platform has for    *)
(* it, numbered 1..onPlatform.                                             *)
(***************************************************************************)
\* largest replyCount, number of replies and replies_limit
MaxReplies == 3
\* most tweets the fetch of line 105 returns
MaxTweets == 2

Tweets == [replyCount : 0..MaxReplies, onPlatform : 0..MaxReplies]

\* api.tweet_replies(id, limit): the collaborator gives the replies in their
\* order, all of them without a limit (limit -1, its default) and the first
\* limit of them otherwise
TweetReplies(t, limit) ==
    LET n == IF limit = -1 \/ limit > t.onPlatform THEN t.onPlatform ELSE limit
    IN  [k \in 1..n |-> k]

ReplyFetchWithoutLimit(limit, t) ==
    IF limit # 0 /\ t.replyCount > 0
    THEN [fetch |-> TRUE, limit |-> -1]
    ELSE [fetch |-> FALSE, limit |-> 0]

\* lines 111-116: whether api.tweet_replies is called for the tweet, and
\* with which limit
ReplyFetch(limit, t) ==
    IF limit = -1 /\ t.replyCount > 0
    THEN [fetch |-> TRUE, limit |-> -1]
    ELSE IF limit > 0 /\ t.replyCount > 0
    THEN [fetch |-> TRUE, limit |-> limit]
    ELSE [fetch |-> FALSE, limit |-> 0]

\* lines 108-120: one pass of the loop
AttachReplies ==
    /\ stage = "replies"
    /\ tidx < Len(tweets)
    /\ LET t == tweets[tidx + 1]
           f == ReplyFetch(replies_limit, t)
       IN  /\ attached' = Append(attached,
                             IF f.fetch THEN TweetReplies(t, f.limit) ELSE <<>>)
           /\ replyFetches' = IF f.fetch
                              THEN Append(replyFetches,
                                          [tweet |-> tidx + 1, limit |-> f.limit])
                              ELSE replyFetches
    /\ tidx' = tidx + 1
    /\ UNCHANGED <<replies_limit, tweets, stage, members, max_concurrent,
                   service, faults, graphVars, harvestVars, genLocal, projVars,
                   aggVars, targetFiles>>

\* get_user_data after line 106, for every list of tweets and every limit
InitReplies ==
    /\ stage = "replies"
    /\ replies_limit \in (-2)..MaxReplies
    /\ tweets \in SeqsUpTo(Tweets, MaxTweets)
    /\ tidx = 0
    /\ attached = <<>>
    /\ replyFetches = <<>>
    /\ IdleProjection /\ IdleAggregate /\ IdleTargets
    /\ IdleGraph /\ IdleHarvest
    /\ members = {}
    /\ nonMd = FALSE
    /\ avatarStore = [i \in Ids |-> NoFile]
    /\ max_concurrent = 1
    /\ service = {}
    /\ faults = {"ok"}
    /\ semaphore = max_concurrent
    /\ pc = [i \in Ids |-> "Absent"]
    /\ tries = [i \in Ids |-> 0]
    /\ processed_users = 0
    /\ failed_users = 0
    /\ calls = [i \in Ids |-> 0]
    /\ onlyTransport = [i \in Ids |-> TRUE]

NextReplies == AttachReplies

SpecReplies == InitReplies /\ [][NextReplies]_vars

(***************************************************************************)
(* aggregate_to_markdown, lines 136-204, on one <id>-data.json.  A stored  *)
(* tweet is its date, its likeCount and the likeCounts of its replies; the *)
(* rendered document is the list of the tweets it shows, each by its place *)
(* in the stored list, with the places of the replies shown under it.      *)
(***************************************************************************)
\* most replies under a stored tweet
MaxStoredReplies == 1

StoredTweets ==
    [date : {1, 2}, likeCount : 0..MaxCount,
     replies : SeqsUpTo(0..MaxCount, MaxStoredReplies)]

\* the thresholds; one more than every likeCount is a threshold nothing reaches
Thresholds == 0..(MaxCount + 1)

RECURSIVE InsertByDate(_, _)
\* the place of x among tweets already sorted: behind every tweet that is
\* not older, as the stable sort leaves it
InsertByDate(sorted, x) ==
    IF sorted = <<>> THEN <<x>>
    ELSE IF Head(sorted).t.date >= x.t.date
         THEN <<Head(sorted)>> \o InsertByDate(Tail(sorted), x)
         ELSE <<x>> \o sorted

RECURSIVE SortFrom(_, _, _)
SortFrom(sorted, ts, k) ==
    IF k > Len(ts) THEN sorted
    ELSE SortFrom(InsertByDate(sorted, [place |-> k, t |-> ts[k]]), ts, k + 1)

\* line 153: sorted(data['tweets'], key=date, reverse=True)
NewestFirst(ts) == SortFrom(<<>>, ts, 1)

ShownAbove(likeCount, min_likes) == likeCount > min_likes

\* lines 170, 184: the display filter
Shown(likeCount, min_likes) == likeCount >= min_likes

RECURSIVE Keep(_, _)
\* the places k of 1..n with test[k], in order
Keep(test, n) ==
    IF n = 0 THEN <<>>
    ELSE IF test[n] THEN Append(Keep(test, n - 1), n) ELSE Keep(test, n - 1)

\* lines 183-190: the replies rendered under a tweet
RenderReplies(t, minR) ==
    Keep([k \in 1..Len(t.replies) |-> Shown(t.replies[k], minR)], Len(t.replies))

\* lines 169-190: the tweets rendered, newest first
RenderTweets(ts, minP, minR) ==
    LET sorted == NewestFirst(ts)
        kept == Keep([k \in 1..Len(sorted) |-> Shown(sorted[k].t.likeCount, minP)],
                     Len(sorted))
    IN  [j \in 1..Len(kept) |->
            [place |-> sorted[kept[j]].place,
             replies |-> RenderReplies(sorted[kept[j]].t, minR)]]

\* lines 142-204 for the file: the document is rendered and written over the
\* old one; a file that cannot be read is skipped (200-202)
AggregateToMarkdown(minP, minR) ==
    /\ stage = "project"
    /\ min_likes_posts' = minP
    /\ min_likes_replies' = minR
    /\ dataMd' = IF dataJson.st = "ok"
                 THEN [st |-> "ok", posts |-> RenderTweets(dataJson.tweets, minP, minR)]
                 ELSE dataMd
    /\ UNCHANGED <<dataJson, stage, members, max_concurrent, service, faults,
                   graphVars, harvestVars, genLocal, replyVars, aggVars,
                   targetFiles>>

\* a call of aggregate_to_markdown with a file in cache_dir, readable or not
InitProject ==
    /\ stage = "project"
    /\ \/ dataJson \in [st : {"ok"}, tweets : SeqsUpTo(StoredTweets, MaxTweets)]
       \/ dataJson = [st |-> "corrupt", tweets |-> <<>>]
    /\ dataMd = [st |-> "none", posts |-> <<>>]
    /\ min_likes_posts = 0
    /\ min_likes_replies = 0
    /\ IdleReplies /\ IdleAggregate /\ IdleTargets
    /\ IdleGraph /\ IdleHarvest
    /\ members = {}
    /\ nonMd = FALSE
    /\ avatarStore = [i \in Ids |-> NoFile]
    /\ max_concurrent = 1
    /\ service = {}
    /\ faults = {"ok"}
    /\ semaphore = max_concurrent
    /\ pc = [i \in Ids |-> "Absent"]
    /\ tries = [i \in Ids |-> 0]
    /\ processed_users = 0
    /\ failed_users = 0
    /\ calls = [i \in Ids |-> 0]
    /\ onlyTransport = [i \in Ids |-> TRUE]

NextProject == \E minP \in Thresholds, minR \in Thresholds : AggregateToMarkdown(minP, minR)

SpecProject == InitProject /\ [][NextProject]_vars

(***************************************************************************)
(* aggregate_avatars, lines 348-370: every <id>-avatar.json of avatar_dir  *)
(* is loaded, in the order of os.listdir, and the list of the loaded ones  *)
(* is written to output/<target>-avatars.json.                             *)
(***************************************************************************)
LoadNeverFails(file) == FALSE

\* lines 358-359: open and json.load raise on a file that does not parse
LoadFails(file) == file.st = "corrupt"

\* line 361: avatar['username'] of a loaded file; an artifact that passed
\* Avatar(...) has the key
HasUsername(file) == file.data.shape

\* lines 354-365: one pass of the loop, for the file of member i
AggregateRead(i) ==
    /\ stage = "aggregate"
    /\ i \notin avatarsRead
    /\ Exists(avatarStore[i])
    /\ avatarsRead' = avatarsRead \cup {i}
    /\ IF LoadFails(avatarStore[i])
       THEN \* lines 363-365
            /\ failed_avatars' = failed_avatars + 1
            /\ UNCHANGED <<avatars, processed_avatars>>
       ELSE \* line 360, then 361-362 or the except of 363-365
            /\ avatars' = Append(avatars, [id |-> i, data |-> avatarStore[i].data])
            /\ IF HasUsername(avatarStore[i])
               THEN /\ processed_avatars' = processed_avatars + 1
                    /\ UNCHANGED failed_avatars
               ELSE /\ failed_avatars' = failed_avatars + 1
                    /\ UNCHANGED processed_avatars
    /\ UNCHANGED <<avatarsFile, stage, hpc, abortCause, run, lastRunEnded, remote,
                   target_user, include_self, followersFile, followingFile,
                   followAllFile, followers, following, follow_all, graphCalls,
                   userStore, idx, user_datas, skipped_users, outcome,
                   fetchCalls, members, max_concurrent, service, faults,
                   genLocal, replyVars, projVars, targetFiles>>

\* lines 366-370: the list is written and returned; nothing catches a
\* failure of this write
AggregateWrite(wres) ==
    /\ stage = "aggregate"
    /\ \A i \in Ids : Exists(avatarStore[i]) => i \in avatarsRead
    /\ avatarsFile' = IF wres = "ok" THEN [st |-> "ok", data |-> avatars]
                      ELSE IF wres = "dump_fail" THEN CorruptList
                      ELSE avatarsFile
    /\ IF wres = "ok"
       THEN /\ stage' = "done"
            /\ UNCHANGED <<hpc, abortCause>>
       ELSE Abort("store_write")
    /\ UNCHANGED <<avatars, processed_avatars, failed_avatars, avatarsRead, run,
                   lastRunEnded, remote, target_user, include_self,
                   followersFile, followingFile, followAllFile, followers,
                   following, follow_all, graphCalls, userStore, idx,
                   user_datas, skipped_users, outcome, fetchCalls, members,
                   max_concurrent, service, faults, genLocal, replyVars,
                   projVars, targetFiles>>

\* an avatar an earlier run persisted for a member without top posts
PlainAvatar == Saved([shape |-> TRUE, has_top |-> FALSE, top_posts |-> <<>>])

\* aggregate_avatars on every avatar_dir the runs can have left
InitAggregate ==
    /\ stage = "aggregate"
    /\ avatarStore \in [Ids -> {NoFile, Corrupt, SampleAvatar, PlainAvatar}]
    /\ faults = WriteResults
    /\ IdleAggregate /\ IdleReplies /\ IdleProjection /\ IdleTargets
    /\ IdleGraph /\ IdleHarvest
    /\ members = {}
    /\ nonMd = FALSE
    /\ max_concurrent = 1
    /\ service = {}
    /\ semaphore = max_concurrent
    /\ pc = [i \in Ids |-> "Absent"]
    /\ tries = [i \in Ids |-> 0]
    /\ processed_users = 0
    /\ failed_users = 0
    /\ calls = [i \in Ids |-> 0]
    /\ onlyTransport = [i \in Ids |-> TRUE]

NextAggregate ==
    \/ \E i \in Ids : AggregateRead(i)
    \/ \E wres \in faults : AggregateWrite(wres)

SpecAggregate == InitAggregate /\ [][NextAggregate]_vars

(***************************************************************************)
(* main() called for one target after another on one Record Store.  The    *)
(* relation files and the aggregate are named after the target (lines 476, *)
(* 480, 484, 349); cache_dir and avatar_dir are 'output/users' and         *)
(* 'output/avatars' whatever the target is (lines 494, 504-506).           *)
(***************************************************************************)
\* lines 52, 67: what the platform lists for target t, which differs from
\* target to target: here nobody follows t and t follows the ids above its own
Platform(t) ==
    [followers |-> <<>>,
     following |-> [k \in 1..(MaxMembers - t) |-> User(t + k, "g")]]

\* the files of output/ that carry the name of the running target
FilesOfTarget ==
    [followers |-> followersFile, following |-> followingFile,
     follow_all |-> followAllFile, avatars |-> avatarsFile]

\* lines 461-474 and 510: the process ends and main() is called for target
\* t; the file names of lines 476-484 and 349 now stand for the files of t
MainFor(t, flag) ==
    /\ stage \in {"done", "aborted"}
    /\ run < MaxRuns
    /\ run' = run + 1
    /\ lastRunEnded' = (stage = "done")
    /\ target_user' = User(t, "self")
    /\ include_self' = flag
    /\ remote' = Platform(t)
    /\ IF t = target_user.id
       THEN UNCHANGED <<followersFile, followingFile, followAllFile,
                        avatarsFile, targetFiles>>
       ELSE /\ targetFiles' = [targetFiles EXCEPT ![target_user.id] = FilesOfTarget]
            /\ followersFile' = targetFiles[t].followers
            /\ followingFile' = targetFiles[t].following
            /\ followAllFile' = targetFiles[t].follow_all
            /\ avatarsFile' = targetFiles[t].avatars
    /\ stage' = "followers"
    /\ hpc' = "idle"
    /\ followers' = <<>> /\ following' = <<>> /\ follow_all' = <<>>
    /\ graphCalls' = [followers |-> 0, following |-> 0]
    /\ idx' = 0 /\ user_datas' = 0 /\ skipped_users' = 0
    /\ outcome' = [i \in Ids |-> "none"]
    /\ fetchCalls' = [i \in Ids |-> 0]
    /\ abortCause' = "none"
    /\ calls' = [i \in Ids |-> 0]
    /\ avatars' = <<>>
    /\ processed_avatars' = 0
    /\ failed_avatars' = 0
    /\ avatarsRead' = {}
    /\ UNCHANGED <<userStore, members, max_concurrent, service, faults, nonMd,
                   avatarStore, semaphore, pc, tries, processed_users,
                   failed_users, onlyTransport, replyVars, projVars>>

\* the first run of main() on an empty Record Store, for target 1
\* (who follows every other id)
InitTargets ==
    /\ IdleStages
    /\ stage = "followers"
    /\ run = 1
    /\ lastRunEnded = FALSE
    /\ remote = Platform(1)
    /\ target_user = User(1, "self")
    /\ include_self \in BOOLEAN
    /\ followersFile = NoList /\ followingFile = NoList /\ followAllFile = NoList
    /\ followers = <<>> /\ following = <<>> /\ follow_all = <<>>
    /\ graphCalls = [followers |-> 0, following |-> 0]
    /\ IdleHarvest
    /\ members = {}
    /\ nonMd = FALSE
    /\ avatarStore = [i \in Ids |-> NoFile]
    /\ max_concurrent \in 1..MaxSlots
    /\ service = MainResponses
    /\ faults = {"ok"}
    /\ semaphore = max_concurrent
    /\ pc = [i \in Ids |-> "Absent"]
    /\ tries = [i \in Ids |-> 0]
    /\ processed_users = 0
    /\ failed_users = 0
    /\ calls = [i \in Ids |-> 0]
    /\ onlyTransport = [i \in Ids |-> TRUE]

NextTargets ==
    \/ GetFollowersCheck
    \/ \E res \in FetchResults, wres \in faults : GetFollowersFetchEnds(res, wres)
    \/ GetFollowingCheck
    \/ \E res \in FetchResults, wres \in faults : GetFollowingFetchEnds(res, wres)
    \/ \E wres \in faults : GetFollowAll(wres)
    \/ HarvestCheck
    \/ \E res \in FetchResults, wres \in faults : HarvestFetchEnds(res, wres)
    \/ HarvestSleepEnds
    \/ ProjectAndStartGenerate
    \/ NextGenerate
    \/ \E i \in Ids : AggregateRead(i)
    \/ \E wres \in faults : AggregateWrite(wres)
    \/ \E t \in Ids, flag \in BOOLEAN : MainFor(t, flag)

SpecTargets == InitTargets /\ [][NextTargets]_vars

(***************************************************************************)
(* Fairness of the event loop: a task that can take its next step takes    *)
(* it, a call in flight returns or fails, gather returns when it can.      *)
(***************************************************************************)
CallEnds(m) ==
    \/ CallFails(m)
    \/ \E resp \in service, wres \in faults : CallReturns(m, resp, wres)

FairSpec ==
    /\ Spec
    /\ \A m \in Ids : WF_vars(Invoke(m)) /\ WF_vars(Acquire(m)) /\ WF_vars(CallEnds(m))
    /\ WF_vars(SkipNonMd)
    /\ WF_vars(Gather)

(***************************************************************************)
(* C1.  At most max_concurrent external generation calls are in flight in  *)
(* every reachable state, retries included; the semaphore's value is the   *)
(* number of free slots.                                                   *)
(***************************************************************************)
C1_ConcurrencyBound ==
    /\ Cardinality(InFlight) <= max_concurrent
    /\ semaphore = max_concurrent - Cardinality(InFlight)

\* every slot is taken, one of the calls in flight is a retry, and another
\* member is suspended waiting for a slot
C1_Witness ==
    /\ Cardinality(InFlight) = max_concurrent
    /\ \E m \in InFlight : tries[m] > 1
    /\ \E m \in members : pc[m] = "Waiting"

(***************************************************************************)
(* C2.  Under FairSpec every member's task eventually reaches Done,        *)
(* Succeeded or FailedPermanently whatever the other members do, a step    *)
(* that fails one member permanently changes no other member's task, the   *)
(* orchestrator eventually completes, and the Aggregator has started only  *)
(* when every member is in a terminal state.                               *)
(***************************************************************************)
FailureIsLocal ==
    \A m \in Ids :
       (pc[m] \notin FailedPermanently /\ pc'[m] \in FailedPermanently)
          => \A o \in Ids \ {m} : pc'[o] = pc[o]

C2_FailureIsolation ==
    /\ \A m \in Ids : <>(m \in members => pc[m] \in Terminal)
    /\ <>(stage = "aggregate")
    /\ [](stage = "aggregate" => \A m \in members : pc[m] \in Terminal)
    /\ [][FailureIsLocal]_vars

\* the run completed with one member failed for good and another succeeded
\* after it had to wait and retry
C2_Witness ==
    /\ stage = "aggregate"
    /\ \E m \in members : pc[m] = "Raised"
    /\ \E m \in members : pc[m] = "Succeeded" /\ tries[m] > 1

(***************************************************************************)
(* C3.  Every artifact in the avatar store satisfies the schema (its       *)
(* structure is right and every top post has likes, retweets and views     *)
(* >= 0), and the store is written only by the step that handles a         *)
(* returned call, never when the member ends in validation failure and     *)
(* never by a failed call.                                                 *)
(***************************************************************************)
ArtifactIsValid(a) ==
    /\ a.shape
    /\ \A i \in 1..Len(a.top_posts) :
          /\ a.top_posts[i].likes \in Nat
          /\ a.top_posts[i].retweets \in Nat
          /\ a.top_posts[i].views \in Nat

StoredAreValid ==
    \A i \in Ids : avatarStore[i].st = "ok" => ArtifactIsValid(avatarStore[i].data)

WritesOnlyAfterValidation ==
    \A m \in Ids :
       avatarStore'[m] # avatarStore[m] =>
          /\ pc[m] = "Submitted"
          /\ pc'[m] # "FailedValidation"
          /\ ~CallFails(m)
          /\ (avatarStore'[m].st = "ok") = (pc'[m] = "Succeeded")

C3_PersistedOnlyIfValid ==
    /\ []StoredAreValid
    /\ [][WritesOnlyAfterValidation]_vars

\* a response with a coerced field was validated and persisted by this run
C3_Witness ==
    /\ pc[1] = "Succeeded"
    /\ avatarStore[1].st = "ok"
    /\ Len(avatarStore[1].data.top_posts) = 1
    /\ avatarStore[1].data.top_posts[1].views = 0

(***************************************************************************)
(* C4.  For a response that is otherwise schema-valid, every likes,        *)
(* retweets or views field that is missing or null is replaced by 0, the   *)
(* member reaches Succeeded and the artifact is persisted with that field  *)
(* equal to 0.                                                             *)
(***************************************************************************)
NumericFields == {"likes", "retweets", "views"}

\* the coercion as the claim states it
ZeroIfAbsent(v) == IF v.k \in {"missing", "null"} THEN 0 ELSE v.n

ExpectedArtifact(resp) ==
    [shape |-> resp.shape,
     has_top |-> resp.has_top,
     top_posts |->
        [i \in 1..Len(resp.top_posts) |->
            [likes |-> ZeroIfAbsent(resp.top_posts[i].likes),
             retweets |-> ZeroIfAbsent(resp.top_posts[i].retweets),
             views |-> ZeroIfAbsent(resp.top_posts[i].views)]]]

\* valid but for fields that are missing or null, of which there is one
OtherwiseValid(resp, absent) ==
    /\ resp.parse /\ resp.shape /\ resp.has_top
    /\ \A i \in 1..Len(resp.top_posts) : \A f \in NumericFields :
          \/ resp.top_posts[i][f].k \in absent
          \/ resp.top_posts[i][f].k = "int" /\ resp.top_posts[i][f].n >= 0
    /\ \E i \in 1..Len(resp.top_posts) : \E f \in NumericFields :
          resp.top_posts[i][f].k \in absent

CoercedAndPersisted(absent) ==
    \A m \in Ids :
       (pc[m] = "Submitted" /\ pc'[m] # "Submitted") =>
          \A resp \in service :
             (OtherwiseValid(resp, absent) /\ CallReturns(m, resp, "ok"))
                => /\ pc'[m] = "Succeeded"
                   /\ avatarStore'[m] = Saved(ExpectedArtifact(resp))

C4_NumericCoercion == [][CoercedAndPersisted({"missing", "null"})]_vars

(***************************************************************************)
(* C5 as stated.  A member that ended in validation failure had exactly    *)
(* one external call in the run, has no artifact, its failure was counted  *)
(* once and the run is not aborted.                                        *)
(***************************************************************************)
C5_ExactlyOneCall ==
    \A m \in members :
       pc[m] = "FailedValidation" =>
          /\ calls[m] = 1
          /\ failed_users = 1
          /\ avatarStore[m].st = "none"
          /\ stage # "aborted"

(***************************************************************************)
(* C5 as amended.  A response that fails schema validation ends the        *)
(* member's task at once in FailedPermanently: that step persists nothing  *)
(* and counts the failure once, no later step makes a call for the member  *)
(* or changes its state, it has no artifact and the run is not aborted.    *)
(***************************************************************************)
\* a response that parses, coerces and then fails the schema
FailsValidation(resp) ==
    /\ resp.parse
    /\ \A i \in 1..Len(resp.top_posts) : \A f \in NumericFields :
          resp.top_posts[i][f].k # "null"
    /\ \/ ~resp.shape
       \/ \E i \in 1..Len(resp.top_posts) : \E f \in NumericFields :
             resp.top_posts[i][f].k \in {"int", "str"} /\ resp.top_posts[i][f].n < 0

ValidationFailureEndsTask ==
    \A m \in Ids :
       /\ (pc[m] = "Submitted" /\ pc'[m] # "Submitted") =>
             \A resp \in service :
                (FailsValidation(resp) /\ CallReturns(m, resp, "ok"))
                   => /\ pc'[m] = "FailedValidation"
                      /\ failed_users' = failed_users + 1
                      /\ avatarStore' = avatarStore
       /\ pc[m] = "FailedValidation"
             => /\ pc'[m] = "FailedValidation"
                /\ calls'[m] = calls[m]
                /\ tries'[m] = tries[m]
                /\ avatarStore'[m] = avatarStore[m]

C5_NoRetryAfterValidationFailure ==
    /\ [](\A m \in members :
             pc[m] = "FailedValidation" =>
                avatarStore[m].st = "none" /\ stage # "aborted")
    /\ [][ValidationFailureEndsTask]_vars

\* the case the statement misses: the first call failed in transport, the
\* second returned a response that fails validation, and the run completed
C5_Witness ==
    /\ pc[1] = "FailedValidation"
    /\ calls[1] = 2
    /\ failed_users = 2
    /\ stage = "aggregate"

(***************************************************************************)
(* C6.  No member has more than MaxTries external calls in a run; a task   *)
(* is never waiting to retry after its MaxTries-th try; a member whose     *)
(* attempts all ended in a failed call and that has used its tries (or its *)
(* time) is in FailedPermanently with no artifact; the run is not aborted. *)
(***************************************************************************)
C6_BoundedRetry ==
    /\ stage # "aborted"
    /\ \A m \in members :
          /\ calls[m] <= MaxTries
          /\ tries[m] <= MaxTries
          /\ pc[m] = "Backoff" => tries[m] < MaxTries
          /\ (onlyTransport[m] /\ tries[m] = MaxTries /\ pc[m] \notin {"Waiting", "Submitted"})
                => pc[m] = "Raised"
          /\ (onlyTransport[m] /\ pc[m] = "Raised")
                => avatarStore[m].st = "none" /\ calls[m] = tries[m]

\* all five calls of a member failed and the run went on to the Aggregator
C6_Witness ==
    /\ stage = "aggregate"
    /\ \E m \in members :
          pc[m] = "Raised" /\ onlyTransport[m] /\ calls[m] = MaxTries

(***************************************************************************)
(* C7.  Running the pipeline again on the Record Store the run before left *)
(* behind.                                                                 *)
(***************************************************************************)
StoredFiles ==
    {followersFile.st, followingFile.st, followAllFile.st}
        \cup {userStore[i].st : i \in Ids} \cup {avatarStore[i].st : i \in Ids}

NoCallsInThisRun ==
    /\ graphCalls["followers"] = 0 /\ graphCalls["following"] = 0
    /\ \A i \in Ids : fetchCalls[i] = 0 /\ calls[i] = 0

\* C7 as stated: a run that follows a run which reached the end of main()
\* makes no call to the graph-fetch or text-generation collaborator, whatever
\* the per-member outcomes of the run before were.
C7_ZeroCallsOnRerun == (run >= 2 /\ lastRunEnded) => NoCallsInThisRun

\* a step of a run leaves every file that exists as it is
KeepsArtifacts ==
    /\ followersFile.st # "none" => followersFile' = followersFile
    /\ followingFile.st # "none" => followingFile' = followingFile
    /\ followAllFile.st # "none" => followAllFile' = followAllFile
    /\ \A i \in Ids : userStore[i].st # "none" => userStore'[i] = userStore[i]
    /\ \A i \in Ids : avatarStore[i].st # "none" => avatarStore'[i] = avatarStore[i]

\* a step that sends a call to a collaborator sends it for a scope that has
\* no file in the store
CallsOnlyForAbsent ==
    /\ graphCalls'["followers"] > graphCalls["followers"] => followersFile.st = "none"
    /\ graphCalls'["following"] > graphCalls["following"] => followingFile.st = "none"
    /\ \A i \in Ids : fetchCalls'[i] > fetchCalls[i] => userStore[i].st = "none"
    /\ \A i \in Ids : calls'[i] > calls[i] => avatarStore[i].st = "none"

\* after a run that reached the end of main(), the relations are not fetched
\* again, and no member whose artifact an earlier run stored is fetched again
RerunSkipsStoredWork ==
    (run >= 2 /\ lastRunEnded) =>
        /\ graphCalls["followers"] = 0 /\ graphCalls["following"] = 0
        /\ \A i \in Ids :
              (userStore[i].st = "ok" /\ userStore[i].fetched_in < run)
                  => fetchCalls[i] = 0

\* C7, amended: in every run, and so in a second run on the store the first
\* one left, every artifact that exists is left unchanged, and a collaborator
\* is called only for a scope that has no artifact in the store (a member
\* the harvest skipped or the enrichment failed permanently in the first run
\* is fetched or generated again); the relations are never fetched again.
C7_RerunCallsOnlyForAbsent ==
    []RerunSkipsStoredWork /\ [][KeepsArtifacts /\ CallsOnlyForAbsent]_vars

\* the second run has ended, after a first run that stored every artifact,
\* without a call
C7_Witness ==
    /\ run = 2 /\ lastRunEnded /\ stage = "aggregate"
    /\ members = Ids
    /\ \A i \in Ids : userStore[i] = SavedMember(1) /\ avatarStore[i].st = "ok"
    /\ NoCallsInThisRun
    /\ user_datas = MaxMembers

(***************************************************************************)
(* C8.  What a reader of the Record Store can find at a CacheKey.          *)
(***************************************************************************)
\* C8: every file that exists in the store is a complete artifact, also
\* after a write that failed part-way; no reader finds a partial file.
C8_NoPartialArtifact == "corrupt" \notin StoredFiles

(***************************************************************************)
(* C9.  get_follow_all on a cache miss.                                    *)
(***************************************************************************)
Concatenation ==
    followers \o following \o (IF include_self THEN <<target_user>> ELSE <<>>)

LastPosition(id) ==
    CHOOSE k \in 1..Len(Concatenation) :
        /\ Concatenation[k].id = id
        /\ \A j \in (k + 1)..Len(Concatenation) : Concatenation[j].id # id

\* C9: on a cache miss the merged list has exactly one record for every id
\* of followers ++ following ++ ([target] if include_self), and the record
\* of an id is the one at the last position of the id in that
\* concatenation.
C9_MergePrecedence ==
    stage = "harvest" =>
        /\ \A a, b \in 1..Len(follow_all) :
              follow_all[a].id = follow_all[b].id => a = b
        /\ {follow_all[k].id : k \in 1..Len(follow_all)}
              = {Concatenation[k].id : k \in 1..Len(Concatenation)}
        /\ \A k \in 1..Len(follow_all) :
              follow_all[k] = Concatenation[LastPosition(follow_all[k].id)]

\* followers [{1,f}], following [{1,g},{2,g}], target {1,self}, included:
\* the merge gives {1: self, 2: g}
C9_Witness ==
    /\ stage = "harvest"
    /\ followers = <<User(1, "f")>>
    /\ following = <<User(1, "g"), User(2, "g")>>
    /\ target_user = User(1, "self")
    /\ include_self
    /\ follow_all = <<User(1, "self"), User(2, "g")>>

(***************************************************************************)
(* C10.  The harvest loop when fetches of members fail.                    *)
(***************************************************************************)
Harvested(hows) == {i \in Ids : outcome[i] \in hows}

\* C10: a member whose fetch raised has no MemberArtifact and is one skip;
\* a member whose fetch returned and was stored has its MemberArtifact; the
\* counters are the numbers of these members; the loop goes through every
\* member of the list; no fetch failure leaves the loop as an exception
\* (the loop is left early only when a stored file cannot be read).
C10_HarvestIsolation ==
    /\ abortCause # "harvest"
    /\ (stage = "aborted" /\ follow_all # <<>>) => abortCause = "store_read"
    /\ \A i \in Harvested({"fetch_fail"}) : userStore[i].st = "none"
    /\ \A i \in Harvested({"fetched"}) : userStore[i] = SavedMember(run)
    /\ skipped_users = Cardinality(Harvested({"fetch_fail", "write_fail"}))
    /\ user_datas = Cardinality(Harvested({"cached", "fetched"}))
    /\ idx = Cardinality(Harvested({"cached", "fetched", "fetch_fail", "write_fail"}))
    /\ stage \in {"generate", "aggregate"} =>
          /\ idx = Len(follow_all)
          /\ \A k \in 1..Len(follow_all) : outcome[follow_all[k].id] # "none"

\* the loop has ended: the fetch of one member raised, every other member
\* has its artifact
C10_Witness ==
    /\ stage = "generate"
    /\ run = 1
    /\ Cardinality(Harvested({"fetch_fail"})) = 1
    /\ Cardinality(Harvested({"fetched"})) = MaxMembers - 1
    /\ skipped_users = 1
    /\ user_datas = MaxMembers - 1
    /\ \A i \in Harvested({"fetched"}) : userStore[i].st = "ok"

(***************************************************************************)
(* C11.  A fetch of followers or following that fails.                     *)
(***************************************************************************)
\* the relation whose fetch ended the run: followers is filled at line 477
\* before get_following is called
FailedRelationFile == IF followers = <<>> THEN followersFile ELSE followingFile

\* the run has not gone beyond the collector
NoLaterStage ==
    /\ follow_all = <<>>
    /\ idx = 0 /\ user_datas = 0 /\ skipped_users = 0
    /\ \A i \in Ids : fetchCalls[i] = 0 /\ calls[i] = 0

CollectFailureAborts ==
    abortCause = "collect" =>
        /\ stage = "aborted"
        /\ FailedRelationFile.st = "none"
        /\ NoLaterStage

\* a run that comes to a relation with no file sends the fetch again
RefetchesAbsentRelation ==
    /\ (stage = "followers" /\ hpc = "idle" /\ followersFile.st = "none"
            /\ vars' # vars)
          => graphCalls'["followers"] = graphCalls["followers"] + 1
    /\ (stage = "following" /\ hpc = "idle" /\ followingFile.st = "none"
            /\ vars' # vars)
          => graphCalls'["following"] = graphCalls["following"] + 1

\* C11: a failed fetch of followers or following is not caught: the run is
\* aborted before any later stage starts, no file is left for the relation,
\* and a later run fetches the relation again.
C11_CollectorFailurePropagates ==
    []CollectFailureAborts /\ [][RefetchesAbsentRelation]_vars

\* the fetch of following failed after followers was stored
C11_Witness ==
    /\ stage = "aborted" /\ abortCause = "collect"
    /\ followers # <<>>
    /\ followersFile.st = "ok"
    /\ followingFile.st = "none"

(***************************************************************************)
(* C12.  The replies attached to the tweets of a member.                   *)
(***************************************************************************)
FetchesFor(k) == {j \in 1..Len(replyFetches) : replyFetches[j].tweet = k}

RepliesAsLimited(k) ==
    LET t == tweets[k]
        a == attached[k]
    IN  /\ (replies_limit = -1 /\ t.replyCount > 0)
              => a = [j \in 1..t.onPlatform |-> j]
        /\ (replies_limit > 0 /\ t.replyCount > 0)
              => /\ Len(a) <= replies_limit
                 /\ t.onPlatform >= replies_limit => Len(a) = replies_limit
                 /\ \A j \in 1..Len(a) : a[j] = j
        /\ (replies_limit = 0 \/ t.replyCount = 0)
              => a = <<>> /\ FetchesFor(k) = {}

\* C12: every tweet the loop has finished has all its replies when
\* replies_limit = -1 and replyCount > 0, the first replies_limit of them
\* (all, if it has fewer) when replies_limit > 0 and replyCount > 0, and no
\* replies and no call of the collaborator when replies_limit = 0 or
\* replyCount = 0.
C12_ReplyLimitPolicy ==
    stage = "replies" =>
        /\ Len(attached) = tidx
        /\ \A k \in 1..tidx : RepliesAsLimited(k)

\* a tweet with replyCount 3 and 3 replies, replies_limit 2: exactly 2
C12_Witness ==
    /\ stage = "replies"
    /\ replies_limit = 2
    /\ tidx = 1
    /\ tweets[1] = [replyCount |-> 3, onPlatform |-> 3]
    /\ attached = << <<1, 2>> >>
    /\ replyFetches = << [tweet |-> 1, limit |-> 2] >>

(***************************************************************************)
(* C13.  The display filter of aggregate_to_markdown.                      *)
(***************************************************************************)
\* the stored tweet at the place a rendered tweet names
ShownPlaces == {dataMd.posts[j].place : j \in 1..Len(dataMd.posts)}

DocumentIsFiltered ==
    (stage = "project" /\ dataJson.st = "ok" /\ dataMd.st = "ok") =>
        /\ ShownPlaces = {k \in 1..Len(dataJson.tweets) :
                             dataJson.tweets[k].likeCount >= min_likes_posts}
        /\ Len(dataMd.posts) = Cardinality(ShownPlaces)
        /\ \A j \in 1..Len(dataMd.posts) :
              LET t == dataJson.tweets[dataMd.posts[j].place]
                  rs == dataMd.posts[j].replies
              IN  /\ {rs[i] : i \in 1..Len(rs)}
                        = {k \in 1..Len(t.replies) : t.replies[k] >= min_likes_replies}
                  /\ \A a, b \in 1..Len(rs) : a < b => rs[a] < rs[b]

\* a call writes nothing but the document, and calls no collaborator
OnlyDocumentWritten ==
    stage = "project" =>
        /\ dataJson' = dataJson
        /\ userStore' = userStore
        /\ graphCalls' = graphCalls /\ fetchCalls' = fetchCalls /\ calls' = calls
        /\ replyFetches' = replyFetches

\* C13: for all thresholds, also thresholds nothing reaches, the stored
\* member data is left as it is and no collaborator is called; the document
\* is written over and shows exactly the tweets with likeCount >=
\* min_likes_posts and, under each, exactly the replies with likeCount >=
\* min_likes_replies, after every call with new thresholds.
C13_DisplayFilterOnly ==
    []DocumentIsFiltered /\ [][OnlyDocumentWritten]_vars

\* no tweet reaches min_likes_posts: the document is written and shows no
\* tweet, the stored data has its tweets
C13_Witness ==
    /\ stage = "project"
    /\ dataJson.st = "ok" /\ Len(dataJson.tweets) = MaxTweets
    /\ \E k \in 1..Len(dataJson.tweets) : dataJson.tweets[k].replies # <<>>
    /\ min_likes_posts = MaxCount + 1
    /\ dataMd = [st |-> "ok", posts |-> <<>>]

(***************************************************************************)
(* C14.  A write of an artifact that fails.                                *)
(***************************************************************************)
\* a step in which the write of a file failed part-way
WriteFailsIn(file, file2) == file.st = "none" /\ file2.st = "corrupt"

SomeWriteFails ==
    \/ WriteFailsIn(followersFile, followersFile')
    \/ WriteFailsIn(followingFile, followingFile')
    \/ WriteFailsIn(followAllFile, followAllFile')
    \/ \E i \in Ids : WriteFailsIn(userStore[i], userStore'[i])
    \/ \E i \in Ids : WriteFailsIn(avatarStore[i], avatarStore'[i])

WriteFailureIsFatal ==
    SomeWriteFails =>
        /\ stage' = "aborted"
        /\ skipped_users' = skipped_users
        /\ failed_users' = failed_users
        /\ \A i \in Ids : pc'[i] # "Backoff"

\* C14: a failed write of an artifact ends the stage that writes with an
\* error: it is not turned into a skipped or a failed member and no further
\* call of a collaborator follows from it.
C14_WriteFailurePropagates == [][WriteFailureIsFatal]_vars

(***************************************************************************)
(* C15.  process_user for a member whose avatar file exists.               *)
(***************************************************************************)
CachedStaysOutOfTheQueue ==
    \A m \in members :
        pc[m] \in {"Waiting", "Submitted"} => avatarStore[m].st = "none"

CachedGoesToDone ==
    \A m \in members :
        avatarStore[m].st # "none" =>
            /\ avatarStore'[m] = avatarStore[m]
            /\ calls'[m] = calls[m]
            /\ pc'[m] \notin {"Waiting", "Submitted"}
            /\ (avatarStore[m].st = "ok" /\ pc[m] = "Pending" /\ pc'[m] # "Pending")
                  => /\ pc'[m] = "Done"
                     /\ semaphore' = semaphore

\* C15: the task of a member whose avatar file exists takes no slot, makes
\* no call of the generation service and does not write the file again,
\* whatever the other tasks do; when the file parses, the task goes from
\* Pending to Done in one step.
C15_CacheHitPath ==
    []CachedStaysOutOfTheQueue /\ [][CachedGoesToDone]_vars

\* a member is Done from its file, without a call, while another member's
\* call is in flight
C15_Witness ==
    /\ stage = "generate"
    /\ \E m, o \in members :
          /\ m # o
          /\ pc[m] = "Done" /\ calls[m] = 0 /\ tries[m] = 1
          /\ avatarStore[m].st = "ok"
          /\ pc[o] = "Submitted"

(***************************************************************************)
(* C16.  aggregate_avatars on a directory with unreadable files.           *)
(***************************************************************************)
Included == {avatars[k].id : k \in 1..Len(avatars)}

AggregateCounts ==
    stage \in {"aggregate", "done", "aborted"} =>
        /\ Len(avatars) = Cardinality(Included)
        /\ Included = {i \in avatarsRead : avatarStore[i].st = "ok"}
        /\ processed_avatars = Cardinality(Included)
        /\ failed_avatars = Cardinality(avatarsRead \ Included)
        /\ Len(avatars) = processed_avatars
        /\ processed_avatars + failed_avatars = Cardinality(avatarsRead)
        /\ abortCause \in {"none", "store_write"}

AggregateComplete ==
    stage = "done" =>
        /\ avatarsRead = {i \in Ids : avatarStore[i].st # "none"}
        /\ avatarsFile.st = "ok"
        /\ Len(avatarsFile.data) = processed_avatars
        /\ \A i \in Included : [id |-> i, data |-> avatarStore[i].data]
                                   \in {avatars[k] : k \in 1..Len(avatars)}

\* C16: an avatar file that does not parse never ends aggregate_avatars; a
\* file is either in the list and counted as processed or not in it and
\* counted as failed; at the end the written list is as long as the
\* processed count, and processed + failed is the number of files read.
C16_AggregatorCounts == AggregateCounts /\ AggregateComplete

\* the list is written with one readable file in it and one unreadable
\* file counted as failed
C16_Witness ==
    /\ stage = "done"
    /\ processed_avatars = 1 /\ failed_avatars = MaxMembers - 1
    /\ Len(avatarsFile.data) = 1
    /\ \E i \in Ids : avatarStore[i].st = "corrupt"

(***************************************************************************)
(* C17.  The counts of the summary of generate_avatars (line 345).         *)
(***************************************************************************)
\* C17: when generate_avatars is over, failed_users is the number of
\* members that ended in a permanent failure, each counted once and a member
\* that succeeded after retries not counted, and processed_users counts no
\* member more than once.
C17_SummaryCountsExact ==
    stage = "aggregate" =>
        /\ failed_users = Cardinality({m \in members : pc[m] \in FailedPermanently})
        /\ processed_users <= Cardinality(members)

(***************************************************************************)
(* C18.  The delay of line 129.                                            *)
(***************************************************************************)
\* the member get_user_data is working on
Current == follow_all[idx + 1].id

DelayAfterStore ==
    hpc = "sleeping" =>
        /\ stage = "harvest"
        /\ userStore[Current] = SavedMember(run)
        /\ fetchCalls[Current] = 1
        /\ outcome[Current] = "none"

DelayOnlyAfterStore ==
    /\ \A i \in Ids :
          \* the artifact is stored: the delay follows
          /\ (userStore[i].st = "none" /\ userStore'[i].st = "ok")
                => hpc' = "sleeping"
          \* get_user_data returns fetched data: out of the delay
          /\ (outcome[i] = "none" /\ outcome'[i] = "fetched")
                => hpc = "sleeping" /\ hpc' = "idle"
          \* it returns cached data or None: no delay before the return
          /\ (outcome[i] = "none" /\ outcome'[i] \in {"cached", "fetch_fail", "write_fail"})
                => hpc # "sleeping" /\ hpc' = "idle"
          \* no fetch is sent during the delay
          /\ fetchCalls'[i] > fetchCalls[i] => hpc = "idle"
    /\ (hpc # "sleeping" /\ hpc' = "sleeping")
          => \E i \in Ids : userStore[i].st = "none" /\ userStore'[i].st = "ok"

\* C18: get_user_data sleeps exactly when it has fetched and stored the
\* data of a member: after the write and before it returns, so before the
\* fetch for the next member; on a cache hit and on a failed fetch it
\* returns without the delay.
C18_CourtesyDelay == []DelayAfterStore /\ [][DelayOnlyAfterStore]_vars

\* the delay after the second member was stored; the fetch for the first
\* one failed and had no delay
C18_Witness ==
    /\ hpc = "sleeping"
    /\ idx = 1
    /\ outcome[follow_all[1].id] = "fetch_fail"
    /\ userStore[Current].st = "ok"

(***************************************************************************)
(* C19.  The merged graph and the include_self flag of the call.           *)
(***************************************************************************)
HasTargetRecord ==
    \E k \in 1..Len(follow_all) :
        follow_all[k].id = target_user.id /\ follow_all[k].v = target_user.v

TargetInGraph ==
    \/ \E k \in 1..Len(followers) : followers[k].id = target_user.id
    \/ \E k \in 1..Len(following) : following[k].id = target_user.id

\* C19: in every run, the list get_follow_all returns has the record of the
\* target under the target's id when include_self is true, and has no
\* record of that id when include_self is false and the target is neither
\* a follower nor followed.
C19_MergeAgreesWithFlag ==
    stage = "harvest" =>
        /\ include_self => HasTargetRecord
        /\ (~include_self /\ ~TargetInGraph)
              => \A k \in 1..Len(follow_all) : follow_all[k].id # target_user.id

(***************************************************************************)
(* C20.  Who holds a slot of the semaphore.                                *)
(***************************************************************************)
Holders == {m \in members : pc[m] = "Submitted"}

SlotsHeldByCallsOnly ==
    stage = "generate" =>
        /\ semaphore + Cardinality(Holders) = max_concurrent
        /\ \A m \in members : pc[m] = "Backoff" => m \notin Holders

\* the slot comes back on every way out of the block
ReleasedOnExit ==
    \A m \in Ids :
        (pc[m] = "Submitted" /\ pc'[m] # "Submitted")
            => /\ semaphore' = semaphore + 1
               /\ pc'[m] \in {"Succeeded", "FailedValidation", "Backoff", "Raised"}

\* C20: a slot is held only by a task whose call, validation and write are
\* in progress; it is released on success, on a validation failure and on an
\* exception, a task in backoff holds none, and every task that waits for a
\* slot gets one, also while other tasks fail and retry.
C20_SlotRelease ==
    /\ []SlotsHeldByCallsOnly
    /\ [][ReleasedOnExit]_vars
    /\ \A m \in Ids : (pc[m] = "Waiting") ~> (pc[m] = "Submitted")

\* one slot: a member holds it while another member, whose call failed, is
\* in backoff and holds none
C20_Witness ==
    /\ stage = "generate"
    /\ max_concurrent = 1
    /\ \E m, o \in members :
          /\ pc[m] = "Submitted" /\ tries[m] = 1
          /\ pc[o] = "Backoff" /\ calls[o] >= 1


(***************************************************************************)
(* C21: the aggregate written for a run holds only avatars of members of   *)
(* that run's merged graph (the list get_follow_all returned in the run),  *)
(* and generate_avatars submits documents only for such members, also      *)
(* when earlier runs for another target left files in the Record Store.    *)
(***************************************************************************)
\* line 485: the ids of the merged graph of the running call of main()
GraphIds == {follow_all[k].id : k \in 1..Len(follow_all)}

C21_AggregateOnlyCurrentGraph ==
    /\ stage = "generate" =>
          \A m \in Ids : pc[m] = "Submitted" => m \in GraphIds
    /\ (stage = "done" /\ avatarsFile.st = "ok") =>
          \A k \in 1..Len(avatarsFile.data) : avatarsFile.data[k].id \in GraphIds

=============================================================================
